---- MODULE Spec2Model ----
(***************************************************************************)
(* Model of the asset pipeline of main.go: main() runs one build cycle     *)
(* (run) and, with DEV=1, a watch loop that re-runs it on change events.   *)
(*                                                                         *)
(* File paths are sequences of one-character strings so that the prefix,   *)
(* suffix, base-name, extension and byte-wise comparisons of the code are  *)
(* computed, not assumed.  File contents are sequences of tokens: the      *)
(* marker syntaxes the regular expressions of the code recognise, and      *)
(* literal text.                                                           *)
(***************************************************************************)
EXTENDS Naturals, Integers, Sequences, FiniteSets, TLC

VARIABLES
    dev,          \* var dev = os.Getenv("DEV") == "1"
    tree,         \* the files under the asset root, other than assets.go
    disk,         \* the file assets.go in the asset root
    pc,           \* position of the single thread of control of main()
    watching,     \* notify.Watch has been set up
    files,        \* run(): var files []string, after the sort
    idx,          \* run(): position of the range loop over files (1-based)
    paths,        \* var paths map[string]string
    assets,       \* var assets map[string]Asset
    written,      \* run(): keys of the map being ranged over already written
    err,          \* the value the process panicked with
    chan,         \* the events buffered in c, oldest first
    sinceLastRun, \* time.Since(lastRun) in ms, saturating above Debounce
    changes,      \* number of edits of the tree made so far by the environment
    prev,         \* assets.go as it was when the current cycle began (between
                  \* cycles: as it is)
    sameTree,     \* the Walk of the current cycle found what the one before found
    absorbed      \* the events received since the last Walk that started no cycle

vars == <<dev, tree, disk, pc, watching, files, idx, paths, assets, written,
          err, chan, sinceLastRun, changes, prev, sameTree, absorbed>>

----------------------------------------------------------------------------
(* Bounds of the model. *)

\* edits of the asset tree the environment makes during one execution
MaxChanges == 2
\* files in the asset tree of a cycle taken on its own
MaxFiles == 2

(* Program constants. *)

\* c := make(chan notify.EventInfo, 1)
ChanCap == 1
\* time.Since(lastRun) > time.Millisecond
Debounce == 1

----------------------------------------------------------------------------
(* Strings as sequences of characters. *)

\* byte values of the characters that occur in the paths of the model
Ord(c) ==
    CASE c = "-" -> 45 [] c = "." -> 46 [] c = "/" -> 47 [] c = "_" -> 95
      [] c = "a" -> 97 [] c = "b" -> 98 [] c = "c" -> 99 [] c = "e" -> 101
      [] c = "f" -> 102
      [] c = "g" -> 103 [] c = "i" -> 105 [] c = "j" -> 106 [] c = "k" -> 107
      [] c = "l" -> 108 [] c = "m" -> 109 [] c = "n" -> 110 [] c = "o" -> 111
      [] c = "p" -> 112 [] c = "r" -> 114 [] c = "s" -> 115 [] c = "t" -> 116
      [] c = "v" -> 118 [] c = "w" -> 119 [] c = "x" -> 120 [] c = "y" -> 121

\* strings.HasPrefix(s, prefix)
HasPrefix(s, prefix) ==
    /\ Len(s) >= Len(prefix)
    /\ SubSeq(s, 1, Len(prefix)) = prefix

\* strings.HasSuffix(s, suffix)
HasSuffix(s, suffix) ==
    /\ Len(s) >= Len(suffix)
    /\ SubSeq(s, Len(s) - Len(suffix) + 1, Len(s)) = suffix

\* s < t on Go strings: byte-wise lexicographic
RECURSIVE StrLess(_, _)
StrLess(s, t) ==
    IF t = <<>> THEN FALSE
    ELSE IF s = <<>> THEN TRUE
    ELSE IF Ord(Head(s)) # Ord(Head(t)) THEN Ord(Head(s)) < Ord(Head(t))
    ELSE StrLess(Tail(s), Tail(t))

\* index of the last "/" of s, 0 when there is none
RECURSIVE LastSlash(_)
LastSlash(s) ==
    IF s = <<>> THEN 0
    ELSE IF s[Len(s)] = "/" THEN Len(s)
    ELSE LastSlash(SubSeq(s, 1, Len(s) - 1))

\* path.Base(file), for the clean relative paths filepath.Walk(".") yields
Base(file) == SubSeq(file, LastSlash(file) + 1, Len(file))

\* filepath.Ext(file): the suffix from the last "." of the last element
RECURSIVE ExtFrom(_, _)
ExtFrom(s, i) ==
    IF i < 1 \/ s[i] = "/" THEN <<>>
    ELSE IF s[i] = "." THEN SubSeq(s, i, Len(s))
    ELSE ExtFrom(s, i - 1)

Ext(file) == ExtFrom(file, Len(file))

----------------------------------------------------------------------------
(* The paths and contents the model draws asset trees from. *)

ImagesDir == <<"i","m","a","g","e","s","/">>
ServiceWorkerName ==
    <<"s","e","r","v","i","c","e","-","w","o","r","k","e","r",".","j","s">>

PngFile == ImagesDir \o <<"a",".","p","n","g">>
CssFile == <<"s","t","y","l","e","s","/","b",".","c","s","s">>
SwFile  == ServiceWorkerName
TxtFile == <<"n",".","t","x","t">>
SvgPart == <<"_","x",".","s","v","g">>
OutFile == <<"a","s","s","e","t","s",".","g","o">>
JpgFile == ImagesDir \o <<"b",".","j","p","g">>
EmbedCss == <<"s","t","y","l","e","s","/","e",".","c","s","s">>
SvgFile == <<"v",".","s","v","g">>
ManifestFile == <<"m",".","w","e","b","m","a","n","i","f","e","s","t">>

\* the files the watched tree is drawn from
Universe == {PngFile, CssFile, SwFile, TxtFile, SvgPart}

\* the files the tree of a single cycle is drawn from: one of every class
\* of the switch on ext, and two of different classes with the same bytes
BuildUniverse == Universe \cup {JpgFile, EmbedCss, SvgFile, ManifestFile}

Tok(kind, value) == [k |-> kind, v |-> value]

\* what ioutil.ReadFile returns for each file of the universe
Content(file) ==
    CASE file = PngFile -> << Tok("lit", <<"PNG">>) >>
      [] file = CssFile -> << Tok("asseturl", PngFile), Tok("ws", <<" ">>),
                              Tok("var", <<"blue">>) >>
      [] file = SwFile  -> << Tok("assetpath", CssFile), Tok("ws", <<" ">>),
                              Tok("assetpath", PngFile) >>
      [] file = TxtFile -> << Tok("lit", <<"notes">>) >>
      [] file = SvgPart -> << Tok("dq", <<>>), Tok("fill", <<>>),
                              Tok("ws", <<" ">>), Tok("var", <<"red">>),
                              Tok("asseturl", PngFile) >>
      [] file = JpgFile -> << Tok("lit", <<"PNG">>) >>
      [] file = EmbedCss ->
            << Tok("svgembed", [file |-> SvgPart, fill |-> <<"red">>]),
               Tok("ws", <<" ">>), Tok("var", <<"mauve">>),
               Tok("lit", <<"}">>) >>
      [] file = SvgFile -> << Tok("var", <<"green">>), Tok("ws", <<" ">>),
                              Tok("var", <<"mauve">>),
                              Tok("assetpath", PngFile) >>
      [] file = ManifestFile ->
            << Tok("srcpretty", PngFile), Tok("ws", <<" ">>),
               Tok("assetpath", PngFile) >>

----------------------------------------------------------------------------
(* The static tables. *)

\* var mimes: the extension-to-MIME table; "" is Go's value for a missing key
Mimes(ext) ==
    CASE ext = <<".","c","s","s">> -> "text/css"
      [] ext = <<".","j","p","g">> -> "image/jpeg"
      [] ext = <<".","j","s">> -> "application/javascript"
      [] ext = <<".","p","n","g">> -> "image/png"
      [] ext = <<".","s","v","g">> -> "image/svg+xml"
      [] ext = <<".","w","e","b","m","a","n","i","f","e","s","t">>
            -> "application/manifest+json"
      [] ext = <<".","w","o","f","f","2">> -> "font/woff2"
      [] OTHER -> ""

\* var variables: the colour table; <<>> is Go's nil for a missing key
Variables(name) ==
    CASE name = <<"blue">> -> <<"#", "007bff">>
      [] name = <<"green">> -> <<"#", "28a745">>
      [] name = <<"green-dark">> -> <<"#", "155724">>
      [] name = <<"green-light">> -> <<"#", "d4edda">>
      [] name = <<"grey">> -> <<"#", "ced4da">>
      [] name = <<"grey-dark">> -> <<"#", "343a40">>
      [] name = <<"grey-light">> -> <<"#", "f8f9fa">>
      [] name = <<"red">> -> <<"#", "dc3545">>
      [] name = <<"red-dark">> -> <<"#", "721c24">>
      [] name = <<"red-light">> -> <<"#", "f8d7da">>
      [] name = <<"yellow">> -> <<"#", "ffc107">>
      [] name = <<"yellow-light">> -> <<"#", "fff3cd">>
      [] name = <<"yellow-dark">> -> <<"#", "856404">>
      [] OTHER -> <<>>

EmptyMap == [x \in {} |-> <<>>]

\* paths[file]: "" (here <<>>) when file is not a key
PathLookup(tbl, file) == IF file \in DOMAIN tbl THEN tbl[file] ELSE <<>>

\* m[key] = value
MapSet(m, key, value) == [x \in DOMAIN m \cup {key} |->
                             IF x = key THEN value ELSE m[x]]

----------------------------------------------------------------------------
(* The reference resolver: each function rewrites one match. *)

\* the elements of a sequence
Range(q) == { q[i] : i \in 1..Len(q) }

\* concatenation of a sequence of sequences
RECURSIVE Concat(_)
Concat(ss) == IF ss = <<>> THEN <<>> ELSE Head(ss) \o Concat(Tail(ss))

\* regexp.ReplaceAllFunc over the matches of one marker syntax; repl maps
\* each match to its replacement, a sequence of tokens
ReplaceAllFunc(data, kind, repl) ==
    Concat([i \in 1..Len(data) |->
               IF data[i].k = kind THEN repl[data[i]] ELSE <<data[i]>>])

\* the matches of one marker syntax in data
Matches(data, kind) == { t \in Range(data) : t.k = kind }

\* cssAssetURLFunc: "url(" + paths[file] + ")"
cssAssetURLFunc(tbl, match) == << Tok("url", PathLookup(tbl, match.v)) >>

\* cssVariableFunc leaving a reference to an unknown name as it is
cssVariableFuncKeepUnknown(match) ==
    IF Variables(match.v) = <<>> THEN << match >>
    ELSE << Tok("lit", Variables(match.v)) >>

\* cssVariableFunc: variables[name]; nil replaces the match by nothing
cssVariableFunc(match) ==
    IF Variables(match.v) = <<>> THEN <<>>
    ELSE << Tok("lit", Variables(match.v)) >>

\* jsAssetPathFunc: "'" + paths[file] + "'"
jsAssetPathFunc(tbl, match) == << Tok("quoted", PathLookup(tbl, match.v)) >>

\* manifestSrcFunc: `"src":"` + paths[file] + `"`
manifestSrcFunc(tbl, match) == << Tok("srcout", PathLookup(tbl, match.v)) >>

\* bytes.ReplaceAll(svg, "FILL", fill), done only when fill is not ""
ReplaceFill(svg, fill) ==
    IF fill = <<>> THEN svg
    ELSE ReplaceAllFunc(svg, "fill",
                        [t \in Matches(svg, "fill") |-> << Tok("lit", fill) >>])

\* bytes.ReplaceAll(svg, `"`, `'`) then bytes.ReplaceAll(svg, "#", "%23")
EscapeForDataURI(svg) ==
    LET Piece(x) == IF x = "#" THEN "%23" ELSE x
        Esc(t) == IF t.k = "dq" THEN Tok("sq", <<>>)
                  ELSE IF t.k = "lit"
                       THEN Tok("lit", [i \in 1..Len(t.v) |-> Piece(t.v[i])])
                       ELSE t
    IN  [i \in 1..Len(svg) |-> Esc(svg[i])]

\* cssSVGEmbedFunc, given the bytes ioutil.ReadFile returned for matches[1]
cssSVGEmbedFunc(match) ==
    LET svg0 == Content(match.v.file)
        svg1 == ReplaceFill(svg0, match.v.fill)
        svg2 == ReplaceAllFunc(svg1, "var",
                    [t \in Matches(svg1, "var") |-> cssVariableFunc(t)])
    IN  << Tok("lit", <<"url(\"data:image/svg+xml,">>) >>
        \o EscapeForDataURI(svg2)
        \o << Tok("lit", <<"\")">>) >>

\* the files cssSVGEmbedFunc would read while rewriting data
EmbeddedFiles(data) ==
    { data[i].v.file : i \in { j \in 1..Len(data) : data[j].k = "svgembed" } }

----------------------------------------------------------------------------
(* The asset processor: run(), body of the range loop. *)

CssExt == <<".","c","s","s">>
JsExt == <<".","j","s">>
ManifestExt == <<".","w","e","b","m","a","n","i","f","e","s","t">>
SvgExt == <<".","s","v","g">>
PngExt == <<".","p","n","g">>
GoExt == <<".","g","o">>

\* min.Bytes(mime, data) when it succeeds: whitespace is dropped, so that
\* `"src": "f"` becomes `"src":"f"`, the one form manifestSrc matches
Minify(data) ==
    LET dense == SelectSeq(data, LAMBDA t : t.k # "ws")
    IN  [i \in 1..Len(dense) |->
            IF dense[i].k = "srcpretty" THEN Tok("src", dense[i].v)
            ELSE dense[i]]

\* cssAssetURL.ReplaceAllFunc(data, cssAssetURLFunc)
ReplaceAssetURLs(data, tbl) ==
    ReplaceAllFunc(data, "asseturl",
        [t \in Matches(data, "asseturl") |-> cssAssetURLFunc(tbl, t)])

\* cssVariable.ReplaceAllFunc(data, cssVariableFunc)
ReplaceVariables(data) ==
    ReplaceAllFunc(data, "var",
        [t \in Matches(data, "var") |-> cssVariableFunc(t)])

\* jsAssetPath.ReplaceAllFunc(data, jsAssetPathFunc)
ReplaceAssetPaths(data, tbl) ==
    ReplaceAllFunc(data, "assetpath",
        [t \in Matches(data, "assetpath") |-> jsAssetPathFunc(tbl, t)])

\* cssSVGEmbed.ReplaceAllFunc(data, cssSVGEmbedFunc)
ReplaceSVGEmbeds(data) ==
    ReplaceAllFunc(data, "svgembed",
        [t \in Matches(data, "svgembed") |-> cssSVGEmbedFunc(t)])

\* manifestSrc.ReplaceAllFunc(data, manifestSrcFunc)
ReplaceManifestSrcs(data, tbl) ==
    ReplaceAllFunc(data, "src",
        [t \in Matches(data, "src") |-> manifestSrcFunc(tbl, t)])

\* the passes before the minifier
PreMinify(ext, raw, tbl) ==
    ReplaceAssetPaths(
        IF ext = CssExt THEN ReplaceVariables(ReplaceAssetURLs(raw, tbl))
        ELSE raw,
        tbl)

\* the passes after the minifier
PostMinify(ext, data, tbl) ==
    IF ext = CssExt THEN ReplaceSVGEmbeds(data)
    ELSE IF ext = ManifestExt THEN ReplaceManifestSrcs(data, tbl)
    ELSE data

\* the switch on ext with the inner switch moved before the minifier
TransformThenMinify(ext, raw, tbl) ==
    IF ext \in {CssExt, JsExt, ManifestExt}
    THEN Minify(PostMinify(ext, PreMinify(ext, raw, tbl), tbl))
    ELSE IF ext = SvgExt THEN ReplaceVariables(raw)
    ELSE raw

\* the switch on ext: asset.Data after all rewriting passes
Transform(ext, raw, tbl) ==
    IF ext \in {CssExt, JsExt, ManifestExt}
    THEN PostMinify(ext, Minify(PreMinify(ext, raw, tbl)), tbl)
    ELSE IF ext = SvgExt THEN ReplaceVariables(raw)
    ELSE raw

\* enc.CompressBuffer(nil, data, nil)
Compress(data) == <<"br", data>>

\* png.Decode then webp.Encode, lossless
ReencodeWebP(data) == <<"webp", data>>

\* asset.Br
BrOf(isDev, ext, data) ==
    IF ~isDev /\ ext \in {CssExt, JsExt, SvgExt} THEN Compress(data) ELSE <<>>

\* asset.WebP
WebPOf(isDev, ext, data) ==
    IF ~isDev /\ ext = PngExt THEN ReencodeWebP(data) ELSE <<>>

\* base64.RawURLEncoding.EncodeToString(md5.Sum(data)): taken as injective
Fingerprint(data) == <<"md5", data>>

\* "/assets/" + fingerprint
PublicPath(fingerprint) == <<"/assets/", fingerprint>>

\* the Asset built for file
AssetOf(isDev, file, tbl) ==
    LET data == Transform(Ext(file), Content(file), tbl)
    IN  [Br |-> BrOf(isDev, Ext(file), data), Data |-> data,
         WebP |-> WebPOf(isDev, Ext(file), data), Mime |-> Mimes(Ext(file))]

----------------------------------------------------------------------------
(* The build orchestrator: discovery and ordering. *)

\* the test on the name left out: every name is kept
KeptAnyName(file) == TRUE

\* the Walk callback's test on the name: !strings.HasPrefix(path.Base(file), "_")
Kept(file) == ~HasPrefix(Base(file), <<"_">>)

\* the less function with the image test answering for the wrong side
LessImagesLast(a, b) ==
    LET aImg == HasPrefix(a, ImagesDir)
        bImg == HasPrefix(b, ImagesDir)
    IN  IF aImg # bImg THEN bImg ELSE StrLess(a, b)

\* the less function given to sort.Slice
Less(a, b) ==
    LET aImg == HasPrefix(a, ImagesDir)
        bImg == HasPrefix(b, ImagesDir)
        aServiceWorker == HasSuffix(a, ServiceWorkerName)
        bServiceWorker == HasSuffix(b, ServiceWorkerName)
    IN  IF aImg # bImg THEN aImg
        ELSE IF aServiceWorker # bServiceWorker THEN aServiceWorker
        ELSE StrLess(a, b)

\* sort.Slice(files, less) of a set of distinct paths
RECURSIVE SortFiles(_)
SortFiles(S) ==
    IF S = {} THEN <<>>
    ELSE LET first == CHOOSE a \in S : \A b \in S \ {a} : Less(a, b)
         IN  <<first>> \o SortFiles(S \ {first})

\* the regular files under the root: the tree and, once written, assets.go
OnDisk(t, d) == t \cup (IF d.exists THEN {OutFile} ELSE {})

\* the directories filepath.Walk(".") visits: the root and every directory
\* on the way to a file
DirsOf(S) ==
    { <<".">> } \cup
    UNION { { SubSeq(f, 1, i - 1) : i \in { j \in 1..Len(f) : f[j] = "/" } }
            : f \in S }

\* fi.IsDir()
IsDir(entry, t, d) == entry \in DirsOf(OnDisk(t, d))

\* every entry the callback of filepath.Walk(".") is called with
Walked(t, d) == OnDisk(t, d) \cup DirsOf(OnDisk(t, d))

\* files after the walk and the sort
Discovered(t, d) ==
    SortFiles({ e \in Walked(t, d) : ~IsDir(e, t, d) /\ Kept(e) })

\* the files of tree t that a walk keeps
AssetsFound(t) == { f \in t : Kept(f) }

----------------------------------------------------------------------------
(* State. *)

NoErr == [kind |-> "none", file |-> <<>>]

\* assets.go: stage counts the fixed parts written (1 the header, 2 the text
\* between the two maps, 3 the closing brace)
NoFile == [exists |-> FALSE, stage |-> 0, pathEntries |-> <<>>,
           assetEntries |-> <<>>]

\* os.Create: the file exists and is empty
Truncated == [exists |-> TRUE, stage |-> 0, pathEntries |-> <<>>,
              assetEntries |-> <<>>]

\* assets.go holds a whole artifact
Complete(d) == d.exists /\ d.stage = 3

Alive == pc \notin {"exited", "panicked"}

InRun == pc \in {"run", "loop", "header", "paths", "assets", "close"}

Init ==
    /\ dev \in BOOLEAN
    /\ tree \in SUBSET Universe
    /\ disk = NoFile
    /\ pc = "run"
    /\ watching = FALSE
    /\ files = <<>>
    /\ idx = 1
    /\ paths = EmptyMap
    /\ assets = EmptyMap
    /\ written = {}
    /\ err = NoErr
    /\ chan = <<>>
    /\ sinceLastRun = Debounce + 1
    /\ changes = 0
    /\ prev = NoFile
    /\ sameTree = FALSE
    /\ absorbed = {}

\* a panic that a deferred recover() in the loop would turn into a retry
PanicRecovered(kind, file) ==
    /\ pc' = "wait"
    /\ err' = [kind |-> kind, file |-> file]

\* panic(v): nothing recovers it, the process ends
Panic(kind, file) ==
    /\ pc' = "panicked"
    /\ err' = [kind |-> kind, file |-> file]

\* c after the notifier saw a change under the watched root: it sends
\* without blocking, so the event is dropped when c is full
Notified(event) ==
    IF watching /\ Len(chan) < ChanCap THEN Append(chan, event) ELSE chan

----------------------------------------------------------------------------
(* run(): one build cycle. *)

\* run() without the two assignments: the tables of the cycle before stay
RunInitKeep == UNCHANGED <<assets, paths>>

\* assets = map[string]Asset{}; paths = map[string]string{}
RunInit ==
    /\ assets' = EmptyMap
    /\ paths' = EmptyMap

\* run() up to the range loop: fresh tables, the walk and the sort
RunStart ==
    /\ pc = "run"
    /\ RunInit
    /\ \E ok \in BOOLEAN :
          IF ok
          THEN /\ files' = Discovered(tree, disk)
               /\ idx' = 1
               /\ pc' = "loop"
               /\ err' = err
          ELSE /\ Panic("walk", <<>>)
               /\ UNCHANGED <<files, idx>>
    /\ prev' = disk
    /\ sameTree' = (Complete(disk) /\ AssetsFound(tree) = Range(files) \ {OutFile})
    /\ absorbed' = {}
    /\ UNCHANGED <<dev, tree, disk, watching, written, chan, sinceLastRun, changes>>

\* the file of the current iteration
CurFile == files[idx]

InLoop == pc = "loop" /\ idx <= Len(files)

\* if ext == ".go" { continue }
ProcessSkip ==
    /\ InLoop
    /\ Ext(CurFile) = GoExt
    /\ idx' = idx + 1
    /\ UNCHANGED <<dev, tree, disk, pc, watching, files, paths, assets,
                   written, err, chan, sinceLastRun, changes, prev,
                   sameTree, absorbed>>

\* the mime test left out
UnsupportedNever(file) == FALSE

\* asset.Mime == "", with asset := Asset{Mime: mimes[ext]}
Unsupported(file) == Mimes(Ext(file)) = ""

\* the panics of one iteration that the file and the tables force
ForcedPanics(file) ==
    IF Unsupported(file) THEN {"Unsupported"}
    ELSE IF file \notin tree THEN {"read"}
    ELSE IF /\ Ext(file) = CssExt
            /\ ~(EmbeddedFiles(Minify(PreMinify(CssExt, Content(file), paths)))
                    \subseteq tree)
         THEN {"embed"}
    ELSE {}

\* the panics of one iteration that the file system and the libraries may
\* raise whatever the file holds
PossiblePanics(file) ==
    IF Unsupported(file) THEN {}
    ELSE {"read"}
         \cup (IF Ext(file) \in {CssExt, JsExt, ManifestExt}
               THEN {"minify"} ELSE {})
         \cup (IF ~dev /\ Ext(file) \in {CssExt, JsExt, SvgExt, PngExt}
               THEN {"encode"} ELSE {})

\* one iteration that panics
ProcessPanic ==
    /\ InLoop
    /\ Ext(CurFile) # GoExt
    /\ \E kind \in ForcedPanics(CurFile) \cup PossiblePanics(CurFile) :
          Panic(kind, CurFile)
    /\ UNCHANGED <<dev, tree, disk, watching, files, idx, paths, assets,
                   written, chan, sinceLastRun, changes, prev,
                   sameTree, absorbed>>

\* the two assignments with the file name hashed together with the bytes
InsertByName(file, asset) ==
    /\ assets' = MapSet(assets, Fingerprint(<<file, asset.Data>>), asset)
    /\ paths' = MapSet(paths, file,
                       PublicPath(Fingerprint(<<file, asset.Data>>)))

\* the two assignments with the hash taken of the bytes as they were read
InsertOfRaw(file, asset) ==
    /\ assets' = MapSet(assets, Fingerprint(asset.Data), asset)
    /\ paths' = MapSet(paths, file, PublicPath(Fingerprint(Content(file))))

\* assets[fingerprint] = asset; paths[file] = "/assets/" + fingerprint
Insert(file, asset) ==
    /\ assets' = MapSet(assets, Fingerprint(asset.Data), asset)
    /\ paths' = MapSet(paths, file, PublicPath(Fingerprint(asset.Data)))

\* one iteration that runs to its end
ProcessOk ==
    /\ InLoop
    /\ Ext(CurFile) # GoExt
    /\ ForcedPanics(CurFile) = {}
    /\ Insert(CurFile, AssetOf(dev, CurFile, paths))
    /\ idx' = idx + 1
    /\ UNCHANGED <<dev, tree, disk, pc, watching, files, written, err, chan,
                   sinceLastRun, changes, prev, sameTree, absorbed>>

\* os.Create placed before the range loop has ended
RangeOverOrNot == TRUE

\* the range loop has visited every file
RangeOver == idx > Len(files)

\* os.Create("assets.go")
Create ==
    /\ pc = "loop"
    /\ RangeOver
    /\ \E ok \in BOOLEAN :
          IF ok
          THEN /\ disk' = Truncated
               /\ chan' = Notified("write")
               /\ pc' = "header"
               /\ err' = err
          ELSE /\ Panic("create", OutFile)
               /\ UNCHANGED <<disk, chan>>
    /\ UNCHANGED <<dev, tree, watching, files, idx, paths, assets, written,
                   sinceLastRun, changes, prev, sameTree, absorbed>>

\* a write on the output file: either it is done or the process panics
WriteStep(newDisk, nextPc, nextWritten) ==
    /\ \E ok \in BOOLEAN :
          IF ok
          THEN /\ disk' = newDisk
               /\ chan' = Notified("write")
               /\ pc' = nextPc
               /\ written' = nextWritten
               /\ err' = err
          ELSE /\ Panic("write", OutFile)
               /\ UNCHANGED <<disk, chan, written>>
    /\ UNCHANGED <<dev, tree, watching, files, idx, paths, assets,
                   sinceLastRun, changes, prev, sameTree, absorbed>>

\* file.WriteString("package assets;var Paths=map[string]string{")
WriteHeader ==
    /\ pc = "header"
    /\ WriteStep([disk EXCEPT !.stage = 1], "paths", {})

\* for path, hash := range paths: the order is whatever the map yields
WritePathEntry ==
    /\ pc = "paths"
    /\ \E p \in DOMAIN paths \ written :
          WriteStep([disk EXCEPT !.pathEntries = Append(@, <<p, paths[p]>>)],
                    "paths", written \cup {p})

\* file.WriteString("};var Assets=map[string]struct{...}{")
WriteMid ==
    /\ pc = "paths"
    /\ written = DOMAIN paths
    /\ WriteStep([disk EXCEPT !.stage = 2], "assets", {})

\* for hash, asset := range assets: the order is whatever the map yields
WriteAssetEntry ==
    /\ pc = "assets"
    /\ \E h \in DOMAIN assets \ written :
          WriteStep([disk EXCEPT !.assetEntries = Append(@, <<h, assets[h]>>)],
                    "assets", written \cup {h})

\* file.WriteString("}")
WriteFooter ==
    /\ pc = "assets"
    /\ written = DOMAIN assets
    /\ WriteStep([disk EXCEPT !.stage = 3], "close", {})

\* main() with the test of dev left out: every mode subscribes
AfterRunAnyMode == IF watching THEN "wait" ELSE "watch"

\* where main() goes on when run() returns
AfterRun == IF watching THEN "wait" ELSE IF dev THEN "watch" ELSE "exited"

\* file.Close(), the return of run() and, in the loop, lastRun = time.Now()
Close ==
    /\ pc = "close"
    /\ \E ok \in BOOLEAN :
          IF ok
          THEN /\ pc' = AfterRun
               /\ sinceLastRun' = IF watching THEN 0 ELSE sinceLastRun
               /\ prev' = disk
               /\ err' = err
          ELSE /\ Panic("close", OutFile)
               /\ UNCHANGED <<sinceLastRun, prev>>
    /\ UNCHANGED <<dev, tree, disk, watching, files, idx, paths, assets,
                   written, chan, changes, sameTree, absorbed>>

----------------------------------------------------------------------------
(* main(): the watch loop. *)

\* notify.Watch("./...", c, notify.All)
WatchSetup ==
    /\ pc = "watch"
    /\ \E ok \in BOOLEAN :
          IF ok
          THEN /\ watching' = TRUE
               /\ pc' = "wait"
               /\ err' = err
          ELSE /\ Panic("watch", <<>>)
               /\ UNCHANGED watching
    /\ UNCHANGED <<dev, tree, disk, files, idx, paths, assets, written, chan,
                   sinceLastRun, changes, prev, sameTree, absorbed>>

\* the test without the debounce
DebounceAlways == TRUE

\* time.Since(lastRun) > time.Millisecond
DebounceElapsed == sinceLastRun > Debounce

\* event := <-c, the debounce test and, when it fails, lastRun = time.Now()
Receive ==
    /\ pc = "wait"
    /\ chan # <<>>
    /\ chan' = Tail(chan)
    /\ IF DebounceElapsed
       THEN /\ pc' = "run"
            /\ UNCHANGED <<sinceLastRun, absorbed>>
       ELSE /\ pc' = "wait"
            /\ sinceLastRun' = 0
            /\ absorbed' = absorbed \cup {Head(chan)}
    /\ UNCHANGED <<dev, tree, disk, watching, files, idx, paths, assets,
                   written, err, changes, prev, sameTree>>

----------------------------------------------------------------------------
(* The environment. *)

\* a millisecond passes before the loop has its next event: c is empty, or
\* the notifier or the scheduler is late
Tick ==
    /\ pc = "wait"
    /\ sinceLastRun <= Debounce
    /\ sinceLastRun' = sinceLastRun + 1
    /\ UNCHANGED <<dev, tree, disk, pc, watching, files, idx, paths, assets,
                   written, err, chan, changes, prev, sameTree, absorbed>>

\* somebody adds or removes a file of the asset tree
Change ==
    /\ Alive
    /\ changes < MaxChanges
    /\ changes' = changes + 1
    /\ \E f \in Universe :
          tree' = IF f \in tree THEN tree \ {f} ELSE tree \cup {f}
    /\ chan' = Notified("change")
    /\ UNCHANGED <<dev, disk, pc, watching, files, idx, paths, assets,
                   written, err, sinceLastRun, prev, sameTree, absorbed>>

----------------------------------------------------------------------------

Next ==
    \/ RunStart \/ ProcessSkip \/ ProcessPanic \/ ProcessOk
    \/ Create \/ WriteHeader \/ WritePathEntry \/ WriteMid
    \/ WriteAssetEntry \/ WriteFooter \/ Close
    \/ WatchSetup \/ Receive
    \/ Tick \/ Change

Spec == Init /\ [][Next]_vars

----------------------------------------------------------------------------
(* One call of run() on its own, over trees that hold files of every class. *)

\* assets.go as an earlier execution over an empty tree left it
EmptyArtifact == [exists |-> TRUE, stage |-> 3, pathEntries |-> <<>>,
                  assetEntries |-> <<>>]

\* main() at the call of run(), on a tree nobody edits
BuildInit ==
    /\ dev \in BOOLEAN
    /\ tree \in { t \in SUBSET BuildUniverse : Cardinality(t) <= MaxFiles }
    /\ disk \in {NoFile, EmptyArtifact}
    /\ pc = "run"
    /\ watching = FALSE
    /\ files = <<>>
    /\ idx = 1
    /\ paths = EmptyMap
    /\ assets = EmptyMap
    /\ written = {}
    /\ err = NoErr
    /\ chan = <<>>
    /\ sinceLastRun = Debounce + 1
    /\ changes = 0
    /\ prev = disk
    /\ sameTree = FALSE
    /\ absorbed = {}

BuildNext ==
    \/ RunStart \/ ProcessSkip \/ ProcessPanic \/ ProcessOk
    \/ Create \/ WriteHeader \/ WritePathEntry \/ WriteMid
    \/ WriteAssetEntry \/ WriteFooter \/ Close

BuildSpec == BuildInit /\ [][BuildNext]_vars

----------------------------------------------------------------------------
(* Vocabulary of the properties. *)

\* the paths whose Path Table entry the resolver looks up while file is
\* processed
ResolvedRefs(file) ==
    LET raw == Content(file)
        Of(kinds) == { raw[i].v : i \in { j \in 1..Len(raw) : raw[j].k \in kinds } }
    IN  IF Ext(file) = CssExt THEN Of({"asseturl", "assetpath"})
        ELSE IF Ext(file) = JsExt THEN Of({"assetpath"})
        ELSE IF Ext(file) = ManifestExt
             THEN Of({"assetpath", "src", "srcpretty"})
        ELSE {}

\* the files of the cycle that are assets, not generated Go source
AssetFiles == { f \in Range(files) : Ext(f) # GoExt }

\* every reference of the cycle's files names a non-ignored file of the tree
AllRefsExist ==
    \A f \in AssetFiles : ~Unsupported(f) =>
        \A p \in ResolvedRefs(f) : p \in Range(files) /\ p \in tree /\ Kept(p)

\* the range loop is at a file it is about to transform
AtFile == InLoop /\ Ext(CurFile) # GoExt /\ ForcedPanics(CurFile) = {}

\* the walk of the current cycle succeeded
WalkDone == pc \in {"loop", "header", "paths", "assets", "close", "watch",
                  "wait", "exited"}
          \/ (pc = "panicked" /\ err.kind # "walk")

\* the range loop of the current cycle has ended without a panic
LoopDone == \/ pc \in {"header", "paths", "assets", "close", "watch", "wait",
                       "exited"}
            \/ (pc = "loop" /\ idx > Len(files))
            \/ (pc = "panicked" /\ err.kind \in {"create", "write", "close",
                                                 "watch"})

\* the tokens of the data stored in the Asset Table
EmittedTokens == UNION { Range(assets[h].Data) : h \in DOMAIN assets }

\* the place of a file of the cycle in the processing order
IndexOf(f) == CHOOSE i \in 1..Len(files) : files[i] = f

\* the Path Table as it was when the loop reached f: the entries of the
\* files before it
TableAt(f) ==
    [g \in { h \in DOMAIN paths : IndexOf(h) < IndexOf(f) } |-> paths[g]]

\* asset.Data of f at the end of the switch on ext
TransformedBytes(f) == Transform(Ext(f), Content(f), TableAt(f))

\* the Asset Table entry the Path Table value of f names
EntryOf(f) == assets[paths[f][2]]

\* the var(--name) of a file's raw bytes whose name the colour table lacks
UnknownVars(f) ==
    { t \in Matches(Content(f), "var") : Variables(t.v) = <<>> }

----------------------------------------------------------------------------
(* C1.  Whenever a reference to p is resolved while another file is being   *)
(* processed, in a tree where every reference names an existing non-ignored *)
(* file, p is already a key of the Path Table.                              *)
C1_ReferentAlreadyInTable ==
    (AtFile /\ AllRefsExist) =>
        \A p \in ResolvedRefs(CurFile) \ {CurFile} : p \in DOMAIN paths

(* C2.  The files under images/ come before every other file in the         *)
(* processing order and are in the Path Table when the first other file is  *)
(* processed; a stylesheet processed in a cycle that found images/a.png has *)
(* its reference rewritten to the public path of images/a.png, and both are *)
(* in the Path Table.                                                       *)
C2_ImagesFirst ==
    /\ \A i, j \in 1..Len(files) :
          (HasPrefix(files[i], ImagesDir) /\ ~HasPrefix(files[j], ImagesDir))
              => i < j
    /\ (InLoop /\ ~HasPrefix(CurFile, ImagesDir)) =>
          \A g \in AssetFiles : HasPrefix(g, ImagesDir) => g \in DOMAIN paths
    /\ (WalkDone /\ CssFile \in DOMAIN paths /\ PngFile \in Range(files)) =>
          /\ PngFile \in DOMAIN paths
          /\ paths[PngFile] = PublicPath(Fingerprint(Content(PngFile)))
          /\ \E h \in DOMAIN assets :
                /\ paths[CssFile] = PublicPath(h)
                /\ Tok("url", paths[PngFile]) \in Range(assets[h].Data)

C2_Witness ==
    /\ pc = "close"
    /\ {PngFile, CssFile} \subseteq DOMAIN paths
    /\ Tok("url", PublicPath(Fingerprint(Content(PngFile)))) \in EmittedTokens

(* C3.  A service worker that is not under images/ comes after every file   *)
(* that is neither under images/ nor a service worker.                      *)
C3_ServiceWorkerLast ==
    \A i, j \in 1..Len(files) :
        ( /\ HasSuffix(files[i], ServiceWorkerName)
          /\ ~HasPrefix(files[i], ImagesDir)
          /\ ~HasSuffix(files[j], ServiceWorkerName)
          /\ ~HasPrefix(files[j], ImagesDir) ) => j < i

(* C4.  A stylesheet's asset-url('p') with p not in the Path Table aborts   *)
(* the cycle: the stylesheet is never transformed, so no url() with an      *)
(* empty target is emitted and the cycle writes no artifact.                *)
C4_UnresolvedAborts ==
    /\ Tok("url", <<>>) \notin EmittedTokens
    /\ \A f \in DOMAIN paths :
          Ext(f) = CssExt =>
              \A i \in 1..Len(Content(f)) :
                  Content(f)[i].k = "asseturl" => Content(f)[i].v \in DOMAIN paths

(* C5.  A cycle that found the same tree as the cycle before it writes the  *)
(* same bytes, entry order included.                                        *)
C5_Deterministic ==
    (pc = "close" /\ sameTree) => disk = prev

(* C6.  After a cycle was aborted, assets.go is the whole new artifact or   *)
(* is what it was before the cycle.                                         *)
C6_AbortLeavesWholeArtifact ==
    pc = "panicked" => (disk = prev \/ Complete(disk))

(* C7, as claimed.  A cycle whose range loop ended found no non-ignored     *)
(* file without an entry in the extension-to-MIME table.                    *)
C7_NoSilentSkip ==
    LoopDone => \A f \in Range(files) : Mimes(Ext(f)) # ""

(* C7, amended.  Every file the range loop has passed is in the Path Table  *)
(* with a MIME type, or has the extension .go; and a panic at a file with   *)
(* no MIME entry and another extension than .go names that file.            *)
C7_NoSilentSkipButGo ==
    /\ WalkDone =>
          \A i \in 1..Len(files) :
              (i < idx) =>
                  \/ Ext(files[i]) = GoExt
                  \/ (Mimes(Ext(files[i])) # "" /\ files[i] \in DOMAIN paths)
    /\ LoopDone =>
          \A f \in Range(files) : Mimes(Ext(f)) # "" \/ Ext(f) = GoExt
    /\ (pc = "panicked" /\ err.kind \in {"Unsupported", "read", "minify",
                                          "embed", "encode"}) =>
          /\ idx <= Len(files)
          /\ err.file = files[idx]
          /\ (Mimes(Ext(files[idx])) = "") <=> (err.kind = "Unsupported")

C7_Witness ==
    /\ pc = "panicked"
    /\ err = [kind |-> "Unsupported", file |-> TxtFile]

(* C8, as claimed.  In watch mode a step that fails a build cycle returns   *)
(* the loop to waiting for events.                                          *)
C8_LoopSurvivesFailure ==
    [][(watching /\ InRun /\ err' # NoErr) => pc' = "wait"]_vars

(* C8, amended.  A failure of a build cycle ends the process: the control   *)
(* is at the panic and stays there, no event is received any more and       *)
(* neither the file list, the tables nor assets.go change again, so no      *)
(* later event starts a cycle.                                              *)
C8_FailureEndsProcess ==
    [][ /\ (err' # NoErr) => pc' = "panicked"
        /\ (pc = "panicked") =>
              /\ pc' = "panicked"
              /\ Len(chan') >= Len(chan)
              /\ UNCHANGED <<disk, files, idx, paths, assets, sinceLastRun>>
      ]_vars

C8_Witness == dev /\ watching /\ pc = "panicked" /\ chan # <<>>

(* C9.  An event received inside the debounce interval starts no cycle, and *)
(* while no later event arrives the loop stays waiting without walking the  *)
(* tree or touching assets.go: the change stays unbuilt.                    *)
C9_AbsorbedChangeStaysUnbuilt ==
    [][ /\ (pc = "wait" /\ Len(chan') < Len(chan) /\ sinceLastRun <= Debounce) =>
              (pc' = "wait" /\ UNCHANGED <<disk, files, paths, assets>>)
        /\ (pc = "wait" /\ chan = <<>> /\ chan' = <<>>) =>
              (pc' = "wait" /\ UNCHANGED <<disk, files, paths, assets>>)
      ]_vars

\* the event of a change was received and started no cycle, no event is
\* left, none can come, and the tree is not the one the last cycle walked
C9_Witness ==
    /\ pc = "wait"
    /\ chan = <<>>
    /\ "change" \in absorbed
    /\ changes = MaxChanges
    /\ AssetsFound(tree) # Range(files) \ {OutFile}
    /\ Complete(disk)

(* C10.  In every cycle the Path Table holds exactly the asset files the    *)
(* loop has passed, all of them found by this cycle's walk, the Asset Table *)
(* holds exactly their fingerprints, and a whole artifact holds exactly the *)
(* entries of the two tables.                                               *)
C10_TablesOfThisCycleOnly ==
    WalkDone =>
        /\ DOMAIN paths = { f \in AssetFiles :
                              \E i \in 1..Len(files) : i < idx /\ files[i] = f }
        /\ { PublicPath(h) : h \in DOMAIN assets }
             = { paths[f] : f \in DOMAIN paths }
        /\ \A f \in DOMAIN paths :
              paths[f] = PublicPath(Fingerprint(
                             assets[paths[f][2]].Data))
        /\ (pc \in {"close", "watch", "wait", "exited"}) =>
              /\ Complete(disk)
              /\ Range(disk.pathEntries)
                   = { <<f, paths[f]>> : f \in DOMAIN paths }
              /\ Range(disk.assetEntries)
                   = { <<h, assets[h]>> : h \in DOMAIN assets }
              /\ Len(disk.pathEntries) = Cardinality(DOMAIN paths)
              /\ Len(disk.assetEntries) = Cardinality(DOMAIN assets)

\* a cycle has written its artifact and its tables lack a path that the
\* artifact before it held
C10_Witness ==
    /\ pc = "close"
    /\ Complete(disk)
    /\ Complete(prev)
    /\ \E i \in 1..Len(prev.pathEntries) :
          prev.pathEntries[i][1] \notin DOMAIN paths

(* C11.  Two processed files with identical transformed bytes have the same *)
(* Path Table value, so the same fingerprint, and exactly one Asset Table   *)
(* entry holds these bytes; the Asset Table has as many entries as there    *)
(* are distinct transformed byte strings among the processed files.         *)
C11_OneEntryPerContent ==
    WalkDone =>
        /\ \A f, g \in DOMAIN paths :
              TransformedBytes(f) = TransformedBytes(g) =>
                  /\ paths[f] = paths[g]
                  /\ Cardinality({ h \in DOMAIN assets :
                                     assets[h].Data = TransformedBytes(f) }) = 1
        /\ Cardinality(DOMAIN assets)
             = Cardinality({ TransformedBytes(f) : f \in DOMAIN paths })

\* two files with the same bytes were processed and share one entry
C11_Witness ==
    /\ LoopDone
    /\ {PngFile, JpgFile} \subseteq DOMAIN paths
    /\ paths[PngFile] = paths[JpgFile]
    /\ Cardinality(DOMAIN assets) = 1

(* C12.  The Path Table value of every processed file is /assets/ followed  *)
(* by the fingerprint of its transformed bytes, every Asset Table key is    *)
(* the fingerprint of the Data stored under it, and every Path Table value  *)
(* names an Asset Table entry, which holds these transformed bytes.         *)
C12_PathIsFingerprintOfTransformed ==
    WalkDone =>
        /\ \A f \in DOMAIN paths :
              /\ paths[f] = PublicPath(Fingerprint(TransformedBytes(f)))
              /\ \E h \in DOMAIN assets :
                    paths[f] = PublicPath(h) /\ assets[h].Data = TransformedBytes(f)
        /\ \A h \in DOMAIN assets : h = Fingerprint(assets[h].Data)

\* a stylesheet whose transformed bytes are neither its raw bytes nor its
\* compressed bytes has been processed
C12_Witness ==
    /\ LoopDone
    /\ ~dev
    /\ CssFile \in DOMAIN paths
    /\ TransformedBytes(CssFile) # Content(CssFile)
    /\ EntryOf(CssFile).Br # <<>>
    /\ paths[CssFile] # PublicPath(Fingerprint(Content(CssFile)))

(* C13.  In development mode no asset of a processed file has Br or WebP    *)
(* bytes; otherwise the asset of every processed .css, .js and .svg file    *)
(* has the compression of its transformed bytes as Br, the asset of every   *)
(* processed .png file has WebP bytes, and the asset of a file of any other *)
(* class has neither.                                                       *)
C13_EncodingsFollowMode ==
    WalkDone =>
        \A f \in DOMAIN paths :
            /\ dev => (EntryOf(f).Br = <<>> /\ EntryOf(f).WebP = <<>>)
            /\ ~dev =>
                  /\ Ext(f) \in {CssExt, JsExt, SvgExt} =>
                        EntryOf(f).Br = Compress(TransformedBytes(f))
                  /\ Ext(f) = PngExt => EntryOf(f).WebP # <<>>
                  /\ Ext(f) \notin {CssExt, JsExt, SvgExt, PngExt} =>
                        (EntryOf(f).Br = <<>> /\ EntryOf(f).WebP = <<>>)

(* C14, as claimed.  In production mode the program runs one cycle, never   *)
(* subscribes and returns from main(); in development mode it never returns *)
(* from main(), goes from the first cycle to the subscription, and once in  *)
(* the watch loop stays in it: the loop has no terminal state.              *)
C14_WatchLoopHasNoEnd ==
    /\ [](pc = "exited" => (~dev /\ ~watching /\ Complete(disk)))
    /\ [](~dev => (~watching /\ pc \notin {"watch", "wait"} /\ chan = <<>>))
    /\ [][(~dev /\ pc # "run") => pc' # "run"]_vars
    /\ [][(dev /\ pc = "close" /\ ~watching) => pc' \in {"close", "watch"}]_vars
    /\ [][watching => (watching' /\ pc' \in {"wait", "run", "loop", "header",
                                             "paths", "assets", "close"})]_vars

(* C14, amended.  The same, but a failure of the first cycle, of the        *)
(* subscription or of a cycle of the loop ends the process: the panic is    *)
(* the one way out of development mode, and the one way out of production   *)
(* mode before the cycle is complete.                                       *)
C14_ModeSelectsLifecycle ==
    /\ [](pc = "exited" => (~dev /\ ~watching /\ Complete(disk)))
    /\ [](~dev => (~watching /\ pc \notin {"watch", "wait"} /\ chan = <<>>))
    /\ [][(~dev /\ pc # "run") => pc' # "run"]_vars
    /\ [][(dev /\ pc = "close" /\ ~watching) =>
              pc' \in {"close", "watch", "panicked"}]_vars
    /\ [][watching => (watching' /\ pc' \in {"wait", "run", "loop", "header",
                                             "paths", "assets", "close",
                                             "panicked"})]_vars
    /\ [][(pc' = "panicked" /\ pc # "panicked") => err' # NoErr]_vars

\* the watch loop has run a cycle of its own and waits again
C14_Witness ==
    /\ dev
    /\ watching
    /\ pc = "wait"
    /\ OutFile \in Range(files)
    /\ Complete(disk)

(* C15.  After a successful cycle no key of the Path Table has a base name  *)
(* that begins with "_", none is a directory, and every regular file the    *)
(* walk visited that has a supported extension and a base name not          *)
(* beginning with "_" is a key.                                             *)
C15_IgnoredAndDirectoriesStayOut ==
    (pc \in {"close", "watch", "wait", "exited"}) =>
        /\ \A f \in DOMAIN paths :
              /\ ~HasPrefix(Base(f), <<"_">>)
              /\ f \notin DirsOf(OnDisk(tree, disk) \cup Range(files))
        /\ \A f \in Range(files) :
              (Mimes(Ext(f)) # "" /\ ~HasPrefix(Base(f), <<"_">>)) =>
                  f \in DOMAIN paths

\* a cycle succeeded on a tree that holds an ignored file next to a file in
\* a directory
C15_Witness ==
    /\ pc = "close"
    /\ SvgPart \in tree
    /\ PngFile \in DOMAIN paths
    /\ SvgPart \notin DOMAIN paths

(* C16.  The bytes stored for a processed file are what the passes of its   *)
(* class give in this order.  Stylesheet: asset-url, colour variables,      *)
(* assetPath, minifier, and only then svg-embed, so the white space of an   *)
(* embedded file outlives the minifier and its asset-url is left as it is.  *)
(* Script: assetPath, then minifier.  Manifest: assetPath, minifier, then   *)
(* the "src" rewrite, which therefore also finds the fields the minifier    *)
(* made compact.  SVG: colour variables only, white space kept.  Any other  *)
(* class: the raw bytes.                                                    *)
C16_PassOrder ==
    WalkDone =>
        \A f \in DOMAIN paths :
            LET raw == Content(f)
                tbl == TableAt(f)
                data == EntryOf(f).Data
            IN  /\ Ext(f) = CssExt =>
                      /\ data = ReplaceSVGEmbeds(Minify(ReplaceAssetPaths(
                                   ReplaceVariables(ReplaceAssetURLs(raw, tbl)),
                                   tbl)))
                      /\ (Matches(raw, "svgembed") # {}) =>
                            /\ Tok("ws", <<" ">>) \in Range(data)
                            /\ Tok("asseturl", PngFile) \in Range(data)
                            /\ Matches(data, "var") = {}
                /\ Ext(f) = JsExt =>
                      data = Minify(ReplaceAssetPaths(raw, tbl))
                /\ Ext(f) = ManifestExt =>
                      /\ data = ReplaceManifestSrcs(
                                   Minify(ReplaceAssetPaths(raw, tbl)), tbl)
                      /\ Matches(data, "src") = {}
                      /\ Matches(data, "srcpretty") = {}
                /\ Ext(f) \in {CssExt, JsExt, ManifestExt} =>
                      /\ Matches(data, "assetpath") = {}
                      /\ Cardinality(Matches(data, "ws"))
                           <= Cardinality(Matches(raw, "svgembed"))
                /\ Ext(f) = SvgExt =>
                      /\ data = ReplaceVariables(raw)
                      /\ Matches(data, "ws") = Matches(raw, "ws")
                      /\ Matches(data, "assetpath") = Matches(raw, "assetpath")
                /\ Ext(f) \notin {CssExt, JsExt, ManifestExt, SvgExt} =>
                      data = raw

\* a stylesheet that embeds a file has been processed, and the white space
\* of the embedded file is in its bytes
C16_Witness ==
    /\ LoopDone
    /\ EmbedCss \in DOMAIN paths
    /\ Tok("ws", <<" ">>) \in Range(EntryOf(EmbedCss).Data)
    /\ Tok("ws", <<" ">>) \in Range(Content(EmbedCss))

(* C17.  An iteration of the loop that inserts under a fingerprint that is  *)
(* already a key of the Asset Table (it adds no key) leaves the Asset Table *)
(* as it was.                                                               *)
C17_OverwriteIsNoOp ==
    [][ (InLoop /\ idx' = idx + 1 /\ DOMAIN assets' = DOMAIN assets) =>
            assets' = assets ]_vars

(* C18.  A var(--name) with a name the colour table lacks is replaced by    *)
(* nothing and raises no error: at a stylesheet or SVG that holds one and   *)
(* is there to be read nothing forces a panic, and a panic at such a file   *)
(* comes from the file system, the minifier or the encoder; the bytes       *)
(* stored for it                                                            *)
(* hold no var(--name) and no token in its place; and the artifact of a     *)
(* completed cycle holds these bytes.                                       *)
C18_UnknownVariableIsEmpty ==
    /\ (InLoop /\ Ext(CurFile) \in {CssExt, SvgExt} /\ CurFile \in tree
           /\ UnknownVars(CurFile) # {}
           /\ EmbeddedFiles(Content(CurFile)) \subseteq tree) =>
          ForcedPanics(CurFile) = {}
    /\ (pc = "panicked" /\ err.file \in BuildUniverse
           /\ Ext(err.file) \in {CssExt, SvgExt}
           /\ UnknownVars(err.file) # {}) =>
          err.kind \in {"read", "minify", "embed", "encode"}
    /\ WalkDone =>
          \A f \in DOMAIN paths :
              (Ext(f) \in {CssExt, SvgExt} /\ UnknownVars(f) # {}) =>
                  /\ Matches(EntryOf(f).Data, "var") = {}
                  /\ Tok("lit", <<>>) \notin Range(EntryOf(f).Data)
                  /\ (Ext(f) = SvgExt) =>
                        Len(EntryOf(f).Data)
                          = Len(Content(f)) - Cardinality(UnknownVars(f))
    /\ (SvgFile \in DOMAIN paths) =>
          EntryOf(SvgFile).Data
            = << Tok("lit", Variables(<<"green">>)), Tok("ws", <<" ">>),
                 Tok("assetpath", PngFile) >>
    /\ (pc \in {"close", "watch", "exited"} /\ SvgFile \in DOMAIN paths) =>
          /\ Complete(disk)
          /\ \E i \in 1..Len(disk.assetEntries) :
                disk.assetEntries[i][2].Data = EntryOf(SvgFile).Data

\* a cycle over an SVG with var(--mauve) has written its artifact
C18_Witness ==
    /\ pc = "close"
    /\ err = NoErr
    /\ UnknownVars(SvgFile) # {}
    /\ SvgFile \in DOMAIN paths
    /\ Complete(disk)

(* C19.  In the watch loop an event caused by the cycle's own writing of    *)
(* assets.go starts no cycle, however late it is taken from the channel.    *)
C19_OwnWritesStartNoCycle ==
    [][ (pc = "wait" /\ chan # <<>> /\ Head(chan) = "write"
            /\ Len(chan') < Len(chan)) => pc' = "wait" ]_vars

(* C20.  assets.go is created or written only when the range loop has       *)
(* visited every file; after a panic of the walk or of the processing of a  *)
(* file it is what it was when the cycle began, which is nothing or the     *)
(* whole artifact of the cycle before.                                      *)
C20_FailureBeforeCreateKeepsArtifact ==
    /\ []( (pc = "panicked" /\ err.kind \in {"walk", "Unsupported", "read",
                                               "minify", "embed", "encode"}) =>
              /\ disk = prev
              /\ disk.exists => Complete(disk) )
    /\ [][ (disk' # disk) =>
              \/ (pc = "loop" /\ idx > Len(files))
              \/ pc \in {"header", "paths", "assets"} ]_vars
    /\ [][ (pc \in {"run", "loop"} /\ pc' = "panicked") => disk' = disk ]_vars

\* a cycle of the watch loop failed at a file and the artifact of the cycle
\* before it, with its entries, is on disk
C20_Witness ==
    /\ pc = "panicked"
    /\ err.kind \in {"Unsupported", "read", "minify", "embed", "encode"}
    /\ Complete(disk)
    /\ disk.pathEntries # <<>>
    /\ disk = prev

====
